---- MODULE Spec2Model ----
(***************************************************************************)
(* Bookmark reconciliation of sync-my-bookmarks (src/src/syncer.ts):       *)
(* firstSync (Mode A: rebuild or merge, then push-back) and fullSync       *)
(* (Mode B: deletion pass, then creation/update pass) acting on the local  *)
(* chrome.bookmarks tree, against the node list the remote API returns.    *)
(* One action is one awaited chrome.bookmarks call (or the synchronous     *)
(* code between two of them) of the running reconciliation.                *)
(***************************************************************************)
EXTENDS Integers, Sequences, FiniteSets, TLC

VARIABLES
    tree,      \* local bookmark tree: id -> [parentId, title, url, children]
    nextId,    \* id chrome.bookmarks.create gives the next local node
    remote,    \* the remote collection: a sequence of remote nodes
    run,       \* locals of the reconciliation run in progress (or last ended)
    log,       \* chrome.bookmarks calls issued by that run, in order
    done,      \* one summary per run that has ended, in order
    plan,      \* the triggers still to come
    token,     \* chrome.storage.local holds a verificationCode
    server,    \* what the API will answer: [answers, accepts, verify], and
               \* whether chrome.bookmarks.getTree reports an error: lastError
    net,       \* requests sent to the API since the latest trigger, in order
    shown,     \* the notification the alarm listener showed for the latest run
    other,     \* a run suspended at an await while `run` executes: [run, log]
    uploads    \* uploads the change listeners started and that are under way,
               \* each raised (getTree pending) or sent (POST on its way)

vars == <<tree, nextId, remote, run, log, done, plan, token, server, net, shown, other,
          uploads>>

(***************************************************************************)
(* Bounds of the model.                                                    *)
(***************************************************************************)
MaxDate == 2       \* the dateAdded values of the remote nodes are 1..MaxDate
MaxFail == 1       \* chrome.bookmarks calls that reject on their own

Absent == -1       \* an optional field (parentId, dateAdded) that is not set

Titles == {"", "W"}
Urls   == {"u1", "u2"}
Dates  == {Absent} \cup 1..MaxDate

(***************************************************************************)
(* The local tree and the chrome.bookmarks calls the reconciler issues.    *)
(* A call on a node (or under a parent) that is not in the tree rejects.   *)
(***************************************************************************)
SystemIds == {0, 1, 2}

EmptyTree ==
    (0 :> [parentId |-> Absent, title |-> "", url |-> "",
           dateAdded |-> Absent, children |-> <<1, 2>>])
    @@ (1 :> [parentId |-> 0, title |-> "Bookmarks bar", url |-> "",
              dateAdded |-> Absent, children |-> <<>>])
    @@ (2 :> [parentId |-> 0, title |-> "Other bookmarks", url |-> "",
              dateAdded |-> Absent, children |-> <<>>])

IsFolderIn(t, id) == id \in DOMAIN t /\ t[id].url = ""

Without(s, x) == SelectSeq(s, LAMBDA y : y # x)

\* The creation time chrome stamps on a new node: a logical clock that ticks
\* with every create, so a later node never carries an earlier time.
Now(id) == id

\* chrome.bookmarks.create({parentId, title, url?}) accepted: the new node gets
\* id `id` and is appended to the parent's children.
ChromeCreate(t, id, parentId, title, url) ==
    (id :> [parentId |-> parentId, title |-> title, url |-> url,
            dateAdded |-> Now(id), children |-> <<>>])
    @@ [t EXCEPT ![parentId].children = Append(@, id)]

CanCreate(t, parentId) == IsFolderIn(t, parentId)

RECURSIVE Subtree(_, _)
Subtree(t, id) ==
    {id} \cup UNION {Subtree(t, t[id].children[i]) : i \in 1..Len(t[id].children)}

\* chrome.bookmarks.remove(id) on a bookmark, chrome.bookmarks.removeTree(id) on
\* a folder: the node and its descendants leave the tree.
ChromeRemove(t, id) ==
    LET gone == Subtree(t, id)
        p    == t[id].parentId
    IN  [k \in DOMAIN t \ gone |->
            IF k = p THEN [t[k] EXCEPT !.children = Without(@, id)] ELSE t[k]]

\* chrome.bookmarks.update(id, {title})
ChromeUpdate(t, id, title) == [t EXCEPT ![id].title = title]

\* chrome.bookmarks.move(id, {parentId}): appended to the new parent's children.
ChromeMove(t, id, parentId) ==
    LET p  == t[id].parentId
        t1 == [t EXCEPT ![p].children = Without(@, id)]
    IN  [t1 EXCEPT ![parentId].children = Append(@, id), ![id].parentId = parentId]

CanMove(t, id, parentId) ==
    /\ id \in DOMAIN t
    /\ IsFolderIn(t, parentId)
    /\ parentId \notin Subtree(t, id)

(***************************************************************************)
(* getExistingChromeBookmarks: the pre-order flattening of the local tree. *)
(***************************************************************************)
LocalNode(t, id, type) ==
    [id |-> id, parentId |-> t[id].parentId, title |-> t[id].title,
     url |-> t[id].url, dateAdded |-> t[id].dateAdded, type |-> type]

\* A flattening that lists a folder after its descendants.
RECURSIVE traverseFolderLast(_, _)
traverseFolderLast(t, nodes) ==
    IF nodes = <<>> THEN <<>>
    ELSE LET id   == Head(nodes)
             rest == traverseFolderLast(t, Tail(nodes))
         IN  IF id \in SystemIds
                 THEN traverseFolderLast(t, t[id].children) \o rest
             ELSE IF t[id].url # ""
                 THEN <<LocalNode(t, id, "bookmark")>> \o rest
             ELSE traverseFolderLast(t, t[id].children)
                  \o <<LocalNode(t, id, "folder")>> \o rest

RECURSIVE traverse(_, _)
traverse(t, nodes) ==
    IF nodes = <<>> THEN <<>>
    ELSE LET id   == Head(nodes)
             rest == traverse(t, Tail(nodes))
         IN  IF id \in SystemIds
                 THEN traverse(t, t[id].children) \o rest
             ELSE IF t[id].url # ""
                 THEN <<LocalNode(t, id, "bookmark")>> \o rest
             ELSE <<LocalNode(t, id, "folder")>> \o traverse(t, t[id].children) \o rest

\* A reader that passes the tree on whatever getTree reported.
ReadDespiteError(t) == traverse(t, <<0>>)

\* chrome.runtime.lastError inside a getTree callback.
lastError == server.lastError

getExistingChromeBookmarks(t) == IF lastError THEN <<>> ELSE traverse(t, <<0>>)

(***************************************************************************)
(* getAllBookmarks of the background script: the flattening the change     *)
(* listeners upload. It starts at the root nodes and skips no id.          *)
(***************************************************************************)
RECURSIVE getAllBookmarksFrom(_, _)
getAllBookmarksFrom(t, nodes) ==
    IF nodes = <<>> THEN <<>>
    ELSE LET id   == Head(nodes)
             rest == getAllBookmarksFrom(t, Tail(nodes))
         IN  IF t[id].url # ""
                 THEN <<LocalNode(t, id, "bookmark")>> \o rest
             ELSE <<LocalNode(t, id, "folder")>>
                  \o getAllBookmarksFrom(t, t[id].children) \o rest

getAllBookmarks(t) == getAllBookmarksFrom(t, <<0>>)

(***************************************************************************)
(* Helpers over node lists.                                                *)
(***************************************************************************)
Range(s) == {s[i] : i \in 1..Len(s)}

IsBookmark(n) == n.type = "bookmark" /\ n.url # ""

\* a.dateAdded || 0
DateKey(n) == IF n.dateAdded = Absent THEN 0 ELSE n.dateAdded

\* [...list].sort((a, b) => aDate - bDate): ascending, stable.
RECURSIVE InsertByDate(_, _)
InsertByDate(sorted, n) ==
    IF sorted = <<>> THEN <<n>>
    ELSE IF DateKey(sorted[Len(sorted)]) <= DateKey(n) THEN Append(sorted, n)
    ELSE Append(InsertByDate(SubSeq(sorted, 1, Len(sorted) - 1), n), sorted[Len(sorted)])

RECURSIVE SortByDateUpTo(_, _)
SortByDateUpTo(s, k) ==
    IF k = 0 THEN <<>> ELSE InsertByDate(SortByDateUpTo(s, k - 1), s[k])

SortByDate(s) == SortByDateUpTo(s, Len(s))

\* A remote list taken as it came.
KeepAll(s) == s

\* apiBookmarks.filter(node => !["0", "1", "2"].includes(node.id))
FilterSystem(s) == SelectSeq(s, LAMBDA n : n.id \notin SystemIds)

\* nodeMap: id -> node, a later entry with the same id replacing an earlier one.
NodeMapIds(api) == {api[i].id : i \in 1..Len(api)}
NodeMapGet(api, id) ==
    api[CHOOSE i \in 1..Len(api) :
            api[i].id = id /\ \A j \in (i + 1)..Len(api) : api[j].id # id]

\* item.title || "Unnamed Folder"
FolderTitle(n) == IF n.title = "" THEN "Unnamed Folder" ELSE n.title

\* folderMapping.get(item.parentId || "1") || "1"
MappedParent(mapping, n) ==
    LET key == IF n.parentId = Absent THEN 1 ELSE n.parentId
    IN  IF key \in DOMAIN mapping THEN mapping[key] ELSE 1

RootMapping == (1 :> 1) @@ (2 :> 2)

(***************************************************************************)
(* ensureParentExists: the synchronous descent along the parent chain of   *)
(* `item`. chain lists the remote folders that must be made first, the     *)
(* nearest parent first and the topmost ancestor last; each frame creates  *)
(* its folder only after the frame above it has returned. A parent chain   *)
(* that runs into a folder whose frame is already active recurses without  *)
(* end before any await is reached: the call stack overflows and the       *)
(* RangeError rejects every frame up to the item loop's catch.             *)
(***************************************************************************)
Resolved == [throws |-> FALSE, chain |-> <<>>]

\* A parent resolution that settles at once and creates no folder at all.
SettleWithoutCreating(api, mapping, processed, item, active) == Resolved

RECURSIVE ensureParentExists(_, _, _, _, _)
ensureParentExists(api, mapping, processed, item, active) ==
    LET parentId == item.parentId
    IN  IF parentId = Absent \/ parentId = 1 \/ parentId = 2 THEN Resolved
        ELSE IF parentId \in DOMAIN mapping THEN Resolved
        ELSE IF \/ parentId \notin NodeMapIds(api)
                \/ NodeMapGet(api, parentId).type # "folder" THEN Resolved
        ELSE IF parentId \in processed THEN Resolved
        ELSE IF parentId \in active THEN [throws |-> TRUE, chain |-> <<>>]
        ELSE LET up == ensureParentExists(api, mapping, processed,
                                          NodeMapGet(api, parentId),
                                          active \cup {parentId})
             IN  [throws |-> up.throws, chain |-> <<parentId>> \o up.chain]

(***************************************************************************)
(* The run in progress.                                                    *)
(***************************************************************************)
\* A store that hands out a token whatever it holds.
AnyToken == TRUE

\* getAuthToken: the stored verificationCode, or null.
getAuthToken == token

\* What a GET of the collection can come to: a 2xx answer carrying the
\* collection ("ok"); a non-2xx answer whose body is JSON without a bookmarks
\* field ("status"); a non-2xx answer whose body is not JSON ("garbled"); no
\* answer at all, fetch rejects ("network").
Responses == {"ok", "status", "garbled", "network"}

Answer == IF server.answers = <<>> THEN "ok" ELSE Head(server.answers)
Answered == IF server.answers = <<>> THEN server ELSE [server EXCEPT !.answers = Tail(@)]

\* One request to the API: by tells whether a reconciliation run ("run") or a
\* change listener of the background script ("event") sent it, auth whether a
\* token was in the store when it was sent, body what a POST carried.
Request(method, by, body) ==
    [method |-> method, by |-> by, auth |-> token, body |-> body]

\* The alarm listener: success after fullSync resolves, failure in its catch.
Notification(rejected) == IF rejected THEN "Sync Error" ELSE "Bookmarks Synced"

IdleRun ==
    [pc |-> "idle", mode |-> "none", trigger |-> "", hadToken |-> FALSE, fetched |-> "",
     existingBookmarks |-> <<>>, api |-> <<>>,
     items |-> <<>>, idx |-> 1, removals |-> <<>>, sub |-> "",
     folderMapping |-> RootMapping, processedItems |-> {},
     failed |-> FALSE, fails |-> 0]

\* No second run: the slot of the suspended run is empty.
Parked == [run |-> IdleRun, log |-> <<>>]

\* The outcomes of one chrome.bookmarks call: it resolves only when `valid`,
\* and may reject on its own while the run's budget of such failures lasts.
Outcomes(valid) ==
    {ok \in BOOLEAN : IF ok THEN valid ELSE (~valid \/ run.fails < MaxFail)}

\* A rejected call that ends the item loop instead of being caught at the item.
AbortOnFailure(r, valid, ok) ==
    [r EXCEPT !.failed = @ \/ ~ok,
              !.fails = IF ~ok /\ valid THEN @ + 1 ELSE @,
              !.idx = IF ok THEN @ ELSE Len(r.items)]

Failing(r, valid, ok) ==
    [r EXCEPT !.failed = @ \/ ~ok,
              !.fails = IF ~ok /\ valid THEN @ + 1 ELSE @]

\* One chrome.bookmarks call: rid is the remote node it is made for, via tells
\* whether the item loop ("item"), ensureParentExists ("parent") or the deletion
\* pass ("delete") made it, item is the remote node the loop was at.
Call(op, rid, via, target, parentId, title, url, ok) ==
    [op |-> op, rid |-> rid, via |-> via, target |-> target,
     parentId |-> parentId, title |-> title, url |-> url, ok |-> ok,
     item |-> IF via = "delete" THEN Absent ELSE run.items[run.idx].id]

\* An outer catch that throws on what it caught.
Rethrown(r) == r.failed \/ r.fetched \in (Responses \ {"ok"})

\* Whether the promise of firstSync / fullSync rejects: `return` without a
\* token, and an outer catch that logs and falls off the end of the function.
Rejects(r) == FALSE

Summary(r, calls) ==
    [mode |-> r.mode, failed |-> r.failed, calls |-> calls, api |-> r.api,
     before |-> r.existingBookmarks,
     settled |-> IF Rejects(r) THEN "rejected" ELSE "resolved"]

\* A step that issues each of its calls a second time before the first has
\* settled.
CommitUnawaited(r, calls) ==
    /\ plan' = plan
    /\ other' = other
    /\ run' = r
    /\ log' = log \o calls \o calls
    /\ done' = IF r.pc = "end" THEN Append(done, Summary(r, log \o calls \o calls)) ELSE done
    /\ shown' = IF r.pc = "end" /\ r.trigger = "alarm" THEN Notification(Rejects(r)) ELSE shown

\* The run's locals become r and its calls `calls`; a run that ends is
\* summarised, and one the alarm started is followed by the listener's
\* notification: fullSync catches whatever is thrown inside it, so the promise
\* the listener awaits never rejects.
Commit(r, calls) ==
    /\ plan' = plan
    /\ other' = other
    /\ run' = r
    /\ log' = log \o calls
    /\ done' = IF r.pc = "end" THEN Append(done, Summary(r, log \o calls)) ELSE done
    /\ shown' = IF r.pc = "end" /\ r.trigger = "alarm" THEN Notification(Rejects(r)) ELSE shown

\* The change listeners of the background script (onCreated, onRemoved,
\* onChanged, onMoved -> sendBookmarksToApi): every accepted call raises one
\* event, whose listener reads the tree and POSTs getAllBookmarks of it with
\* whatever the store holds as token. after is the tree the call left. The
\* server replaces the collection when it accepts uploads and a token came along.
Listeners(calls, after) ==
    LET raised == IF lastError THEN <<>> ELSE SelectSeq(calls, LAMBDA c : c.ok)
        body   == getAllBookmarks(after)
    IN  /\ net' = net \o [i \in 1..Len(raised) |-> Request("POST", "event", body)]
        /\ remote' = IF raised # <<>> /\ server.accepts /\ token THEN body ELSE remote
        /\ UNCHANGED <<token, server, uploads>>

\* A step of the run that sends nothing and raises no event.
Silent == UNCHANGED <<remote, token, server, net, uploads>>

\* A loop that stops behind its last item and never returns.
StopBehindLast(r, after) ==
    IF r.idx + 1 > Len(r.items)
        THEN [r EXCEPT !.idx = @ + 1, !.sub = "", !.pc = "stuck"]
        ELSE [r EXCEPT !.idx = @ + 1, !.sub = ""]

\* for (const item of items): on to the next item, or past the loop.
NextItem(r, after) ==
    IF r.idx + 1 > Len(r.items)
        THEN [r EXCEPT !.idx = @ + 1, !.sub = "", !.pc = after]
        ELSE [r EXCEPT !.idx = @ + 1, !.sub = ""]

Enter(r, pc, after) == IF r.items = <<>> THEN [r EXCEPT !.pc = after] ELSE [r EXCEPT !.pc = pc]

\* The run is between its start and its end, waiting at an await.
Suspended(r) == r.pc \notin {"idle", "end"}

\* A trigger that waits until no run is suspended.
TriggeredWhenFree(mode) ==
    /\ run.pc \in {"idle", "end"}
    /\ ~Suspended(other.run)
    /\ plan # <<>> /\ Head(plan) = mode
    /\ plan' = Tail(plan)

\* The next trigger fires when the code that executes is not inside a run:
\* `run` has ended or has not begun (a suspended run may wait in `other`).
Triggered(mode) ==
    /\ run.pc \in {"idle", "end"}
    /\ plan # <<>> /\ Head(plan) = mode
    /\ plan' = Tail(plan)

(***************************************************************************)
(* firstSync (Mode A).                                                     *)
(***************************************************************************)
\* existingUrls
existingUrls(existing) == {n.url : n \in {m \in Range(existing) : IsBookmark(m)}}

\* A merge that takes every remote bookmark, present locally or not.
AllRemoteBookmarks(api, urls) == SelectSeq(api, LAMBDA n : IsBookmark(n))

\* bookmarksToAdd
bookmarksToAdd(api, urls) ==
    SelectSeq(api, LAMBDA n : IsBookmark(n) /\ n.url \notin urls)

\* A run that returns before its loops: the summary, and the notification when
\* the alarm started it.
Returns(r) ==
    /\ run' = [r EXCEPT !.pc = "end"]
    /\ done' = Append(done, Summary(r, <<>>))
    /\ shown' = IF r.trigger = "alarm" THEN Notification(Rejects(r)) ELSE ""

FirstSync ==
  \E trigger \in {"firstSync", "verified"} :
    /\ Triggered(trigger)
    /\ log' = <<>>
    /\ LET existing == getExistingChromeBookmarks(tree)
           r0 == [IdleRun EXCEPT
                    !.mode = "firstSync",
                    !.trigger = IF trigger = "verified" THEN "login" ELSE "call",
                    !.fails = run.fails,
                    !.hadToken = getAuthToken,
                    !.existingBookmarks = existing]
       IN  IF ~getAuthToken
           THEN \* if (!token) return
                /\ Returns(r0)
                /\ net' = <<>>
                /\ UNCHANGED server
           ELSE LET answer == Answer
                    \* no response.ok check: result.bookmarks || []
                    apiBookmarks == IF answer = "ok" THEN remote ELSE <<>>
                    filteredBookmarks == FilterSystem(apiBookmarks)
                    rebuild == existingUrls(existing) = {}
                    r == [r0 EXCEPT
                            !.fetched = answer,
                            !.api = filteredBookmarks,
                            !.items = IF rebuild
                                        THEN SortByDate(filteredBookmarks)
                                        ELSE SortByDate(bookmarksToAdd(filteredBookmarks,
                                                                       existingUrls(existing)))]
                IN  /\ net' = <<Request("GET", "run", <<>>)>>
                    /\ server' = Answered
                    /\ IF answer \in {"network", "garbled"}
                       THEN \* fetch or response.json() rejects: the outer catch
                            Returns([r0 EXCEPT !.fetched = answer])
                       ELSE /\ run' = Enter(r, IF rebuild THEN "rebuild" ELSE "merge", "push")
                            /\ done' = done
                            /\ shown' = ""
    /\ UNCHANGED <<tree, nextId, remote, token, other, uploads>>

Item == run.items[run.idx]

\* The item's parent chain cannot be resolved (the descent overflows the
\* stack): the loop's catch logs it and the loop goes on.
RebuildSkip ==
    /\ run.pc = "rebuild"
    /\ ensureParentExists(run.api, run.folderMapping, run.processedItems, Item, {}).throws
    /\ Commit(NextItem(run, "push"), <<>>)
    /\ UNCHANGED <<tree, nextId>>
    /\ Silent

\* ensureParentExists creates the topmost missing ancestor folder.
RebuildParent ==
    /\ run.pc = "rebuild"
    /\ LET e == ensureParentExists(run.api, run.folderMapping, run.processedItems, Item, {})
       IN  /\ ~e.throws /\ e.chain # <<>>
           /\ LET parentFolder == NodeMapGet(run.api, e.chain[Len(e.chain)])
                  grandparentChromeId == MappedParent(run.folderMapping, parentFolder)
                  valid == CanCreate(tree, grandparentChromeId)
              IN  \E ok \in Outcomes(valid) :
                    LET call == Call("create", parentFolder.id, "parent", nextId,
                                     grandparentChromeId, FolderTitle(parentFolder), "", ok)
                        r == Failing(run, valid, ok)
                    IN  /\ IF ok
                           THEN /\ tree' = ChromeCreate(tree, nextId, grandparentChromeId,
                                                        FolderTitle(parentFolder), "")
                                /\ nextId' = nextId + 1
                                /\ Commit([r EXCEPT
                                             !.folderMapping = (parentFolder.id :> nextId) @@ @,
                                             !.processedItems = @ \cup {parentFolder.id}],
                                          <<call>>)
                           ELSE /\ UNCHANGED <<tree, nextId>>
                                /\ Commit(NextItem(r, "push"), <<call>>)
                        /\ Listeners(<<call>>, tree')

\* The item itself, once its parent chain is resolved.
RebuildItem ==
    /\ run.pc = "rebuild"
    /\ ensureParentExists(run.api, run.folderMapping, run.processedItems, Item, {}) = Resolved
    /\ LET item == Item
           parentChromeId == MappedParent(run.folderMapping, item)
           valid == CanCreate(tree, parentChromeId)
       IN  IF item.type = "folder" \/ IsBookmark(item)
           THEN \E ok \in Outcomes(valid) :
                  LET title == IF item.type = "folder" THEN FolderTitle(item) ELSE item.title
                      url == IF item.type = "folder" THEN "" ELSE item.url
                      call == Call("create", item.id, "item", nextId, parentChromeId,
                                   title, url, ok)
                      r == Failing(run, valid, ok)
                  IN  /\ IF ok
                         THEN /\ tree' = ChromeCreate(tree, nextId, parentChromeId, title, url)
                              /\ nextId' = nextId + 1
                              /\ Commit(NextItem(
                                   [r EXCEPT
                                      !.folderMapping =
                                          IF item.type = "folder"
                                          THEN (item.id :> nextId) @@ @ ELSE @,
                                      !.processedItems = @ \cup {item.id}], "push"),
                                   <<call>>)
                         ELSE /\ UNCHANGED <<tree, nextId>>
                              /\ Commit(NextItem(r, "push"), <<call>>)
                      /\ Listeners(<<call>>, tree')
           ELSE /\ UNCHANGED <<tree, nextId>>
                /\ Commit(NextItem(run, "push"), <<>>)
                /\ Silent

\* Merge branch: one create under the bookmarks bar per bookmark to add.
MergeItem ==
    /\ run.pc = "merge"
    /\ LET bookmark == Item
           valid == CanCreate(tree, 1)
       IN  \E ok \in Outcomes(valid) :
             LET call == Call("create", bookmark.id, "item", nextId, 1,
                              bookmark.title, bookmark.url, ok)
                 r == Failing(run, valid, ok)
             IN  /\ IF ok
                    THEN /\ tree' = ChromeCreate(tree, nextId, 1, bookmark.title, bookmark.url)
                         /\ nextId' = nextId + 1
                    ELSE UNCHANGED <<tree, nextId>>
                 /\ Commit(NextItem(r, "push"), <<call>>)
                 /\ Listeners(<<call>>, tree')

\* A push that sends the snapshot firstSync took at its start.
SnapshotAtStart(t) == run.existingBookmarks

\* What syncBookmarksToApi sends: the tree as getExistingChromeBookmarks reads
\* it when the push is made.
allBookmarks(t) == getExistingChromeBookmarks(t)

\* syncBookmarksToApi: without a token nothing is sent; else POST the flattened
\* local tree; a 2xx answer means the server replaced the collection, anything
\* else is logged.
syncBookmarksToApi ==
    /\ run.pc = "push"
    /\ IF ~getAuthToken
       THEN UNCHANGED <<remote, net>>
       ELSE /\ net' = Append(net, Request("POST", "run", allBookmarks(tree)))
            /\ \E ok \in BOOLEAN :
                 remote' = IF ok THEN allBookmarks(tree) ELSE remote
    /\ Commit([run EXCEPT !.pc = "end"], <<>>)
    /\ UNCHANGED <<tree, nextId, token, server, uploads>>

(***************************************************************************)
(* fullSync (Mode B).                                                      *)
(***************************************************************************)
\* A Map built by forEach(set): its keys in the order of their first insertion.
RECURSIVE KeysInOrder(_, _)
KeysInOrder(keys, seen) ==
    IF keys = <<>> THEN <<>>
    ELSE IF Head(keys) \in seen THEN KeysInOrder(Tail(keys), seen)
    ELSE <<Head(keys)>> \o KeysInOrder(Tail(keys), seen \cup {Head(keys)})

Bookmarks(list) == SelectSeq(list, IsBookmark)
Folders(list) == SelectSeq(list, LAMBDA n : ~IsBookmark(n) /\ n.type = "folder")

\* apiBookmarksByUrl / existingBookmarksByUrl: the keys, and the value under a
\* key (the last node set under it).
UrlKeys(list) == {n.url : n \in Range(Bookmarks(list))}
ByUrlGet(list, url) ==
    LET b == Bookmarks(list)
    IN  b[CHOOSE i \in 1..Len(b) :
              b[i].url = url /\ \A j \in (i + 1)..Len(b) : b[j].url # url]

\* apiFoldersById / existingFoldersById: the keys.
FolderKeys(list) == {n.id : n \in Range(Folders(list))}

\* A deletion pass that removes the folders before the bookmarks.
FoldersFirst(existing, api) ==
    LET urls == KeysInOrder([i \in 1..Len(Bookmarks(existing)) |->
                                 Bookmarks(existing)[i].url], {})
        ids  == KeysInOrder([i \in 1..Len(Folders(existing)) |->
                                 Folders(existing)[i].id], {})
        gone == SelectSeq(urls, LAMBDA u : u \notin UrlKeys(api))
        dead == SelectSeq(ids, LAMBDA f : f \notin FolderKeys(api))
    IN  [i \in 1..Len(dead) |-> [op |-> "removeTree", id |-> dead[i]]]
        \o [i \in 1..Len(gone) |-> [op |-> "remove", id |-> ByUrlGet(existing, gone[i]).id]]

\* Steps 4 and 5: the remove and removeTree calls of the deletion pass, in the
\* order the two for-of loops over the Maps issue them.
Removals(existing, api) ==
    LET urls == KeysInOrder([i \in 1..Len(Bookmarks(existing)) |->
                                 Bookmarks(existing)[i].url], {})
        ids  == KeysInOrder([i \in 1..Len(Folders(existing)) |->
                                 Folders(existing)[i].id], {})
        gone == SelectSeq(urls, LAMBDA u : u \notin UrlKeys(api))
        dead == SelectSeq(ids, LAMBDA f : f \notin FolderKeys(api))
    IN  [i \in 1..Len(gone) |-> [op |-> "remove", id |-> ByUrlGet(existing, gone[i]).id]]
        \o [i \in 1..Len(dead) |-> [op |-> "removeTree", id |-> dead[i]]]

\* existingBookmarks.find(b => b.type === "folder" && b.title === title &&
\* b.parentId === parentId): the first such node's id, or Absent.
FindFolder(existing, title, parentId) ==
    LET hits == {i \in 1..Len(existing) :
                    /\ existing[i].type = "folder"
                    /\ existing[i].title = title
                    /\ existing[i].parentId = parentId}
    IN  IF hits = {} THEN Absent
        ELSE existing[CHOOSE i \in hits : \A j \in hits : i <= j].id

\* A guard that lets every fetched collection through.
NeverEmpty(filtered) == FALSE

\* if (filteredApiBookmarks.length === 0) return
EmptyRemote(filtered) == filtered = <<>>

FullSync ==
    \E trigger \in {"fullSync", "alarm"} :
      /\ Triggered(trigger)
      /\ log' = <<>>
      /\ LET existing == getExistingChromeBookmarks(tree)
             r0 == [IdleRun EXCEPT
                      !.mode = "fullSync",
                      !.trigger = IF trigger = "alarm" THEN "alarm" ELSE "popup",
                      !.fails = run.fails,
                      !.hadToken = getAuthToken,
                      !.existingBookmarks = existing]
         IN  IF ~getAuthToken
             THEN \* if (!token) return
                  /\ Returns(r0)
                  /\ net' = <<>>
                  /\ UNCHANGED server
             ELSE LET answer == Answer
                      filteredApiBookmarks == FilterSystem(remote)
                      r == [r0 EXCEPT
                              !.fetched = answer,
                              !.api = filteredApiBookmarks,
                              !.items = SortByDate(filteredApiBookmarks),
                              !.removals = Removals(existing, filteredApiBookmarks)]
                  IN  /\ net' = <<Request("GET", "run", <<>>)>>
                      /\ server' = Answered
                      /\ IF answer # "ok"
                         THEN \* fetch rejects, or !response.ok throws: the outer catch
                              Returns([r0 EXCEPT !.fetched = answer])
                         ELSE IF EmptyRemote(filteredApiBookmarks)
                         THEN Returns([r EXCEPT !.removals = <<>>])
                         ELSE /\ run' = [r EXCEPT !.pc = IF r.removals = <<>>
                                                         THEN "sync" ELSE "delete"]
                              /\ done' = done
                              /\ shown' = ""
      /\ UNCHANGED <<tree, nextId, remote, token, other, uploads>>

\* One call of the deletion pass.
Remove ==
    /\ run.pc = "delete"
    /\ LET rm == Head(run.removals)
           valid == rm.id \in DOMAIN tree
       IN  \E ok \in Outcomes(valid) :
             LET call == Call(rm.op, Absent, "delete", rm.id, Absent, "", "", ok)
                 r == Failing(run, valid, ok)
             IN  /\ tree' = IF ok THEN ChromeRemove(tree, rm.id) ELSE tree
                 /\ Commit([r EXCEPT !.removals = Tail(@),
                                     !.pc = IF Tail(run.removals) = <<>>
                                            THEN "sync" ELSE "delete"], <<call>>)
                 /\ Listeners(<<call>>, tree')
    /\ UNCHANGED nextId

SyncEnsure ==
    ensureParentExists(run.api, run.folderMapping, run.processedItems, Item, {})

\* The descent of ensureParentExists overflows: caught by the item's catch.
SyncSkip ==
    /\ run.pc = "sync" /\ run.sub = ""
    /\ SyncEnsure.throws
    /\ Commit(NextItem(run, "end"), <<>>)
    /\ UNCHANGED <<tree, nextId>>
    /\ Silent

\* ensureParentExists settles the topmost missing ancestor: a folder of the
\* snapshot with its title under the resolved parent is reused, else created.
SyncParent ==
    /\ run.pc = "sync" /\ run.sub = ""
    /\ ~SyncEnsure.throws /\ SyncEnsure.chain # <<>>
    /\ LET parentFolder == NodeMapGet(run.api, SyncEnsure.chain[Len(SyncEnsure.chain)])
           grandparentChromeId == MappedParent(run.folderMapping, parentFolder)
           existingChromeFolder == FindFolder(run.existingBookmarks,
                                              FolderTitle(parentFolder),
                                              grandparentChromeId)
           valid == CanCreate(tree, grandparentChromeId)
       IN  IF existingChromeFolder # Absent
           THEN /\ Commit([run EXCEPT
                             !.folderMapping = (parentFolder.id :> existingChromeFolder) @@ @,
                             !.processedItems = @ \cup {parentFolder.id}], <<>>)
                /\ UNCHANGED <<tree, nextId>>
                /\ Silent
           ELSE \E ok \in Outcomes(valid) :
                  LET call == Call("create", parentFolder.id, "parent", nextId,
                                   grandparentChromeId, FolderTitle(parentFolder), "", ok)
                      r == Failing(run, valid, ok)
                  IN  /\ IF ok
                         THEN /\ tree' = ChromeCreate(tree, nextId, grandparentChromeId,
                                                      FolderTitle(parentFolder), "")
                              /\ nextId' = nextId + 1
                              /\ Commit([r EXCEPT
                                           !.folderMapping = (parentFolder.id :> nextId) @@ @,
                                           !.processedItems = @ \cup {parentFolder.id}],
                                        <<call>>)
                         ELSE /\ UNCHANGED <<tree, nextId>>
                              /\ Commit(NextItem(r, "end"), <<call>>)
                      /\ Listeners(<<call>>, tree')

\* apiItem.type === "folder": reuse by title and parent, or create.
SyncFolder ==
    /\ run.pc = "sync" /\ run.sub = ""
    /\ SyncEnsure = Resolved
    /\ Item.type = "folder"
    /\ LET apiItem == Item
           parentChromeId == MappedParent(run.folderMapping, apiItem)
           existingChromeFolder == FindFolder(run.existingBookmarks,
                                              FolderTitle(apiItem), parentChromeId)
           valid == CanCreate(tree, parentChromeId)
       IN  IF existingChromeFolder # Absent
           THEN /\ Commit(NextItem([run EXCEPT
                             !.folderMapping = (apiItem.id :> existingChromeFolder) @@ @,
                             !.processedItems = @ \cup {apiItem.id}], "end"), <<>>)
                /\ UNCHANGED <<tree, nextId>>
                /\ Silent
           ELSE \E ok \in Outcomes(valid) :
                  LET call == Call("create", apiItem.id, "item", nextId, parentChromeId,
                                   FolderTitle(apiItem), "", ok)
                      r == Failing(run, valid, ok)
                  IN  /\ IF ok
                         THEN /\ tree' = ChromeCreate(tree, nextId, parentChromeId,
                                                      FolderTitle(apiItem), "")
                              /\ nextId' = nextId + 1
                              /\ Commit(NextItem([r EXCEPT
                                           !.folderMapping = (apiItem.id :> nextId) @@ @,
                                           !.processedItems = @ \cup {apiItem.id}], "end"),
                                        <<call>>)
                         ELSE /\ UNCHANGED <<tree, nextId>>
                              /\ Commit(NextItem(r, "end"), <<call>>)
                      /\ Listeners(<<call>>, tree')

\* apiItem.type === "bookmark" && apiItem.url: update the local bookmark with
\* that URL when its title or parent differs, or create one when there is none.
SyncBookmark ==
    /\ run.pc = "sync" /\ run.sub = ""
    /\ SyncEnsure = Resolved
    /\ Item.type # "folder"
    /\ LET apiItem == Item
           parentChromeId == MappedParent(run.folderMapping, apiItem)
       IN  IF ~IsBookmark(apiItem)
           THEN /\ Commit(NextItem(run, "end"), <<>>)
                /\ UNCHANGED <<tree, nextId>>
                /\ Silent
           ELSE IF apiItem.url \in UrlKeys(run.existingBookmarks)
           THEN LET existingBookmark == ByUrlGet(run.existingBookmarks, apiItem.url)
                    moves == existingBookmark.parentId # parentChromeId
                    valid == existingBookmark.id \in DOMAIN tree
                IN  IF existingBookmark.title # apiItem.title \/ moves
                    THEN \E ok \in Outcomes(valid) :
                           LET call == Call("update", apiItem.id, "item",
                                            existingBookmark.id, Absent,
                                            apiItem.title, "", ok)
                               r == Failing(run, valid, ok)
                           IN  /\ tree' = IF ok
                                          THEN ChromeUpdate(tree, existingBookmark.id,
                                                            apiItem.title)
                                          ELSE tree
                               /\ UNCHANGED nextId
                               /\ Commit(IF ok /\ moves
                                         THEN [r EXCEPT !.sub = "move"]
                                         ELSE NextItem(r, "end"), <<call>>)
                               /\ Listeners(<<call>>, tree')
                    ELSE /\ Commit(NextItem(run, "end"), <<>>)
                         /\ UNCHANGED <<tree, nextId>>
                         /\ Silent
           ELSE \E ok \in Outcomes(CanCreate(tree, parentChromeId)) :
                  LET call == Call("create", apiItem.id, "item", nextId, parentChromeId,
                                   apiItem.title, apiItem.url, ok)
                      r == Failing(run, CanCreate(tree, parentChromeId), ok)
                  IN  /\ IF ok
                         THEN /\ tree' = ChromeCreate(tree, nextId, parentChromeId,
                                                      apiItem.title, apiItem.url)
                              /\ nextId' = nextId + 1
                         ELSE UNCHANGED <<tree, nextId>>
                      /\ Commit(NextItem(r, "end"), <<call>>)
                      /\ Listeners(<<call>>, tree')

\* The move that follows an accepted update when the parent differs.
SyncMove ==
    /\ run.pc = "sync" /\ run.sub = "move"
    /\ LET apiItem == Item
           parentChromeId == MappedParent(run.folderMapping, apiItem)
           existingBookmark == ByUrlGet(run.existingBookmarks, apiItem.url)
           valid == CanMove(tree, existingBookmark.id, parentChromeId)
       IN  \E ok \in Outcomes(valid) :
             LET call == Call("move", apiItem.id, "item", existingBookmark.id,
                              parentChromeId, "", "", ok)
                 r == Failing(run, valid, ok)
             IN  /\ tree' = IF ok
                            THEN ChromeMove(tree, existingBookmark.id, parentChromeId)
                            ELSE tree
                 /\ Commit(NextItem(r, "end"), <<call>>)
                 /\ Listeners(<<call>>, tree')
    /\ UNCHANGED nextId

\* The user adds a bookmark to the bookmarks bar by hand: onCreated fires and
\* its listener uploads the tree.
UserCreate ==
    /\ Triggered("user")
    /\ \E url \in Urls :
         /\ tree' = ChromeCreate(tree, nextId, 1, "W", url)
         /\ nextId' = nextId + 1
    /\ run' = [IdleRun EXCEPT !.mode = "user", !.pc = "end", !.fails = run.fails]
    /\ log' = <<>>
    /\ net' = IF lastError THEN <<>>
              ELSE <<Request("POST", "event", getAllBookmarks(tree'))>>
    /\ remote' = IF ~lastError /\ server.accepts /\ token
                 THEN getAllBookmarks(tree') ELSE remote
    /\ shown' = ""
    /\ UNCHANGED <<done, token, server, other, uploads>>

(***************************************************************************)
(* What starts a run.                                                      *)
(***************************************************************************)
\* What POST /auth/verify-email can come to: success with a token ("token"),
\* success without one ("noToken"), success false ("denied"), fetch or
\* response.json() rejecting ("network").
Verdicts == {"token", "noToken", "denied", "network"}

\* A verification that counts whenever the response reports success.
AnySuccess == server.verify \in {"token", "noToken"}

\* data.success && data.token
Verified == server.verify = "token"

\* A step that is no reconciliation run: what it leaves in `run`.
Handled(mode) == [IdleRun EXCEPT !.mode = mode, !.pc = "end", !.fails = run.fails]

\* verifyCode: on a verified code the token is stored and firstSync() is called
\* without being awaited: its run is the next thing to start.
verifyCode ==
    /\ run.pc \in {"idle", "end"}
    /\ plan # <<>> /\ Head(plan) = "login"
    /\ IF Verified
       THEN /\ token' = TRUE
            /\ plan' = <<"verified">> \o Tail(plan)
       ELSE /\ token' = token
            /\ plan' = Tail(plan)
    /\ run' = Handled("verify")
    /\ log' = <<>>
    /\ net' = <<>>
    /\ shown' = ""
    /\ UNCHANGED <<tree, nextId, remote, done, server, other, uploads>>

\* onStartup, onInstalled and the load of the script: setupPeriodicSync clears
\* the alarm and creates it anew, first firing after the period.
setupPeriodicSync ==
    /\ run.pc \in {"idle", "end"}
    /\ plan # <<>> /\ Head(plan) \in {"startup", "installed"}
    /\ plan' = SelectSeq(Tail(plan), LAMBDA e : e # "alarm") \o <<"alarm">>
    /\ run' = Handled("setup")
    /\ log' = <<>>
    /\ net' = <<>>
    /\ shown' = ""
    /\ UNCHANGED <<tree, nextId, remote, done, token, server, other, uploads>>

\* While a run waits at an await the event loop takes up something else: the
\* other suspended run, or the handler of the next trigger. The run that
\* executes and the one that waits change places.
Switch ==
    /\ Suspended(other.run) \/ (Suspended(run) /\ plan # <<>>)
    /\ run' = other.run
    /\ log' = other.log
    /\ other' = [run |-> run, log |-> log]
    /\ UNCHANGED <<tree, nextId, remote, done, plan, token, server, net, shown, uploads>>

(***************************************************************************)
(* Initial states. The local user nodes have ids from 3 on, as chrome gives *)
(* them; remote node i has id 10 + i, as in a collection uploaded from     *)
(* another browser (local and remote ids coincide only once this browser   *)
(* has pushed its own tree). plan is the sequence of triggers to come:     *)
(* a login (verifyCode) starts firstSync, an alarm or the popup's button   *)
(* starts fullSync.                                                        *)
(*   Seed:  no local user node, three remote nodes with every parent       *)
(*          structure and every dating, reconciled by firstSync.           *)
(*   Small: up to two local user nodes and up to two remote nodes, three   *)
(*          in all, under every plan.                                      *)
(***************************************************************************)
RemoteNode(i, sh) ==
    [id |-> 10 + i, parentId |-> sh.parentId, title |-> sh.title, url |-> sh.url,
     dateAdded |-> sh.dateAdded,
     type |-> IF sh.url = "" THEN "folder" ELSE "bookmark"]

Kinds == {""} \cup Urls

SeedShapes == [parentId : {1, 11, 12, 13}, title : {"W"}, url : {"", "u1"},
               dateAdded : Dates]

SmallShapes == [parentId : {Absent, 1, 11, 12}, title : Titles, url : Kinds,
                dateAdded : {Absent, 1}]

LocalShapes == [title : {"W"}, url : Kinds, inside : BOOLEAN]

\* The local tree after its user nodes were made in turn: node j under the
\* bookmarks bar, or (inside) in the folder made just before it.
RECURSIVE LocalTree(_, _)
LocalTree(shapes, m) ==
    IF m = 0 THEN EmptyTree
    ELSE LET t == LocalTree(shapes, m - 1)
             sh == shapes[m]
             parentId == IF sh.inside THEN 1 + m ELSE 1
         IN  ChromeCreate(t, 2 + m, parentId, sh.title, sh.url)

LocalShapeOk(shapes, m) ==
    \A j \in 1..m : shapes[j].inside => (j > 1 /\ shapes[j - 1].url = "")

Plans == {<<"firstSync">>, <<"fullSync">>,
          <<"firstSync", "fullSync">>, <<"fullSync", "fullSync">>}

\* A server that answers every GET with the collection and turns the change
\* listeners' uploads down.
Quiet == [answers |-> <<>>, accepts |-> FALSE, verify |-> "denied", lastError |-> FALSE]

StartWith(t, id, r, p, tok, srv) ==
    /\ tree = t
    /\ nextId = id
    /\ remote = r
    /\ plan = p
    /\ token = tok
    /\ server = srv
    /\ run = IdleRun
    /\ log = <<>>
    /\ done = <<>>
    /\ net = <<>>
    /\ shown = ""
    /\ other = Parked
    /\ uploads = <<>>

Start(t, id, r, p) == StartWith(t, id, r, p, TRUE, Quiet)

SeedInit ==
    \E rs \in [1..3 -> SeedShapes] :
        Start(EmptyTree, 3, [i \in 1..3 |-> RemoteNode(i, rs[i])], <<"firstSync">>)

SmallInit ==
    \E m \in 0..2, n \in 0..2 :
      \E ls \in [1..m -> LocalShapes], rs \in [1..n -> SmallShapes], p \in Plans :
        /\ m + n <= 3
        /\ LocalShapeOk(ls, m)
        /\ Start(LocalTree(ls, m), 3 + m, [i \in 1..n |-> RemoteNode(i, rs[i])], p)

\* Edge: at most one local user node and a remote set that is empty, one
\* node, or an upload of the change listener (the fixed roots included, ids
\* as this browser gave them) with one more node under a root, or that
\* upload alone, of this tree or of the tree without user nodes; the token
\* present or not, the server answering the first GET in every way and
\* taking the listeners' uploads or not.
EdgeShapes == [parentId : {0, 1, 2}, title : {"W"}, url : Kinds, dateAdded : {Absent, 1}]

EdgePlans == {<<"firstSync">>, <<"fullSync">>, <<"alarm">>, <<"user">>,
              <<"user", "alarm">>, <<"firstSync", "alarm">>}

EdgeRemotes(t) ==
    {<<>>} \cup {<<RemoteNode(1, sh)>> : sh \in EdgeShapes}
           \cup {getAllBookmarks(t) \o <<RemoteNode(1, sh)>> : sh \in EdgeShapes}
           \cup {getAllBookmarks(t), getAllBookmarks(EmptyTree)}

EdgeInit ==
    \E m \in 0..1 :
      \E ls \in [1..m -> LocalShapes], p \in EdgePlans,
         tok \in BOOLEAN, answer \in Responses, accepts \in BOOLEAN :
        /\ LocalShapeOk(ls, m)
        /\ \E r \in EdgeRemotes(LocalTree(ls, m)) :
             StartWith(LocalTree(ls, m), 3 + m, r, p, tok,
                       [answers |-> <<answer>>, accepts |-> accepts, verify |-> "denied",
                        lastError |-> FALSE])

\* Event: a login or a lifecycle event with at most one local user node and
\* at most one remote node, logged in before or not, the verification
\* answered in every way.
EventPlans == {<<"login">>, <<"fullSync", "login">>, <<"startup">>, <<"installed">>,
               <<"alarm", "installed">>}

EventInit ==
    \E m \in 0..1 :
      \E ls \in [1..m -> LocalShapes], p \in EventPlans,
         tok \in BOOLEAN, verdict \in Verdicts :
        /\ LocalShapeOk(ls, m)
        /\ \E r \in {<<>>} \cup {<<RemoteNode(1, sh)>> : sh \in EdgeShapes} :
             StartWith(LocalTree(ls, m), 3 + m, r, p, tok,
                       [answers |-> <<>>, accepts |-> FALSE, verify |-> verdict,
                        lastError |-> FALSE])

Init == SeedInit \/ SmallInit \/ EdgeInit \/ EventInit

Next ==
    \/ FirstSync
    \/ RebuildSkip
    \/ RebuildParent
    \/ RebuildItem
    \/ MergeItem
    \/ syncBookmarksToApi
    \/ FullSync
    \/ Remove
    \/ SyncSkip
    \/ SyncParent
    \/ SyncFolder
    \/ SyncBookmark
    \/ SyncMove
    \/ UserCreate
    \/ verifyCode
    \/ setupPeriodicSync

Spec == Init /\ [][Next]_vars

(***************************************************************************)
(* Two triggers in a row over bookmarks only, the second free to fire      *)
(* while the run of the first is suspended.                                *)
(***************************************************************************)
OverlapShapes == [parentId : {Absent, 2}, title : {"W"}, url : Urls, dateAdded : {Absent}]

OverlapPlans == {<<"fullSync", "fullSync">>, <<"alarm", "fullSync">>,
                 <<"login", "fullSync">>, <<"fullSync", "login">>}

OverlapInit ==
    \E m \in 0..1, n \in 1..2 :
      \E ls \in [1..m -> [title : {"W"}, url : Urls, inside : {FALSE}]],
         rs \in [1..n -> OverlapShapes], p \in OverlapPlans :
        StartWith(LocalTree(ls, m), 3 + m, [i \in 1..n |-> RemoteNode(i, rs[i])], p,
                  TRUE, [answers |-> <<>>, accepts |-> FALSE, verify |-> "token",
                        lastError |-> FALSE])

OverlapNext ==
    \/ verifyCode
    \/ FirstSync
    \/ RebuildItem
    \/ MergeItem
    \/ syncBookmarksToApi
    \/ FullSync
    \/ Remove
    \/ SyncBookmark
    \/ SyncMove
    \/ Switch

OverlapSpec == OverlapInit /\ [][OverlapNext]_vars

(***************************************************************************)
(* Vocabulary of the properties.                                           *)
(***************************************************************************)
InFullSync  == run.mode = "fullSync"
InFirstSync == run.mode = "firstSync"
\* firstSync took the rebuild branch (no local bookmark at its start).
InRebuild   == InFirstSync /\ existingUrls(run.existingBookmarks) = {}
InMerge     == InFirstSync /\ existingUrls(run.existingBookmarks) # {}
\* The run is past its item loop.
LoopOver    == run.pc \in {"push", "end"}

Creates == {i \in 1..Len(log) : log[i].op = "create"}
Accepted == {i \in 1..Len(log) : log[i].ok}
RemoteOf(i) == NodeMapGet(run.api, log[i].rid)

\* The parentId of remote node n names a remote folder.
NamesRemoteFolder(api, n) ==
    /\ n.parentId \in NodeMapIds(api)
    /\ NodeMapGet(api, n.parentId).type = "folder"

\* No parent chain of the remote set runs in a circle.
Acyclic(api) ==
    \A n \in Range(api) : ~ensureParentExists(api, RootMapping, {}, n, {}).throws

DistinctUrls(api) ==
    \A i, j \in 1..Len(api) :
        (i # j /\ IsBookmark(api[i]) /\ IsBookmark(api[j])) => api[i].url # api[j].url

LocalBookmarkIds == {id \in DOMAIN tree : id \notin SystemIds /\ tree[id].url # ""}
LocalUrls == {tree[id].url : id \in LocalBookmarkIds}

(***************************************************************************)
(* C1. In a fullSync run, a local bookmark whose URL is the URL of some    *)
(* remote bookmark is never removed from the local tree, neither by remove *)
(* nor as a descendant of a folder removed with removeTree.                *)
(***************************************************************************)
C1_SharedUrlNeverRemoved ==
    InFullSync =>
        \A b \in Range(run.existingBookmarks) :
            (IsBookmark(b) /\ b.url \in UrlKeys(run.api)) => b.id \in DOMAIN tree

(***************************************************************************)
(* C2. After a fullSync run in which no call failed, whatever the fetched  *)
(* remote set (the empty one included), no local bookmark remains whose    *)
(* URL is absent from the remote bookmark URLs and no local folder remains *)
(* whose id is absent from the remote folder ids.                          *)
(***************************************************************************)
C2_AbsentFromRemoteRemoved ==
    (InFullSync /\ run.pc = "end" /\ ~run.failed) =>
        \A n \in Range(run.existingBookmarks) :
            n.id \in DOMAIN tree =>
                /\ IsBookmark(n) => n.url \in UrlKeys(run.api)
                /\ n.type = "folder" => n.id \in FolderKeys(run.api)

(***************************************************************************)
(* C3. Idempotence of fullSync: when it runs to the end twice in           *)
(* succession against the same remote set and no call fails, the second    *)
(* run issues no create, update, move, remove or removeTree call.          *)
(***************************************************************************)
C3_SecondRunIssuesNothing ==
    (/\ Len(done) = 2
     /\ done[1].mode = "fullSync" /\ done[2].mode = "fullSync"
     /\ ~done[1].failed /\ ~done[2].failed
     /\ done[1].api = done[2].api)
    => done[2].calls = <<>>

(***************************************************************************)
(* C4. Remote wins: after a fullSync run with no failing call, every       *)
(* remote bookmark has a local bookmark with its URL, its title, and as    *)
(* parent the local folder the folder mapping records for its remote       *)
(* parent (root 1 when there is none). Stated for remote sets without      *)
(* parent cycles and without a repeated URL, where the claim still fails.  *)
(***************************************************************************)
C4_RemoteWins ==
    (/\ InFullSync /\ run.pc = "end" /\ ~run.failed
     /\ Acyclic(run.api) /\ DistinctUrls(run.api))
    => \A n \in Range(run.api) :
         IsBookmark(n) =>
            \E id \in LocalBookmarkIds :
                /\ tree[id].url = n.url
                /\ tree[id].title = n.title
                /\ tree[id].parentId = MappedParent(run.folderMapping, n)

(***************************************************************************)
(* C5. Hierarchy preservation: from a local tree without user nodes, for   *)
(* an acyclic remote set and with no failing create, firstSync leaves one  *)
(* local node per remote node, and two remote nodes with the same remote   *)
(* parent folder are children of the same local folder, whatever the       *)
(* dateAdded values.                                                       *)
(***************************************************************************)
C5_MirrorsRemoteForest ==
    (/\ InFirstSync /\ LoopOver /\ ~run.failed
     /\ run.existingBookmarks = <<>> /\ Acyclic(run.api))
    => /\ \A n \in Range(run.api) :
            Cardinality({i \in Creates : log[i].rid = n.id}) = 1
       /\ Cardinality(DOMAIN tree \ SystemIds) = Len(run.api)
       /\ \A i, j \in Creates :
            (/\ RemoteOf(i).parentId = RemoteOf(j).parentId
             /\ NamesRemoteFolder(run.api, RemoteOf(i)))
            => tree[log[i].target].parentId = tree[log[j].target].parentId

(***************************************************************************)
(* C6. Within one run each remote node is processed at most once: at most  *)
(* one create call is issued per remote node, also for a folder that       *)
(* ensureParentExists created early for a descendant. Stated for the runs  *)
(* in which no call has failed.                                            *)
(***************************************************************************)
C6_OneCreatePerRemoteNode ==
    ~run.failed =>
        \A i, j \in Creates : log[i].rid = log[j].rid => i = j

(***************************************************************************)
(* C7. Dependency ordering in firstSync: whenever it issues a create for a *)
(* remote item whose parentId names a remote folder, that folder was       *)
(* created earlier in the run and the call's parent is the local id the    *)
(* folder mapping records for it.                                          *)
(***************************************************************************)
\* The latest accepted create for remote folder f before call i.
LatestCreateOf(f, i) ==
    LET made == {j \in Creates \cap Accepted : j < i /\ log[j].rid = f}
    IN  IF made = {} THEN 0 ELSE CHOOSE j \in made : \A k \in made : k <= j

ParentMadeFirst(i) ==
    LET f == RemoteOf(i).parentId
        j == LatestCreateOf(f, i)
    IN  /\ j # 0
        /\ log[j].target = log[i].parentId
        /\ i = Len(log) =>
              (f \in DOMAIN run.folderMapping /\ run.folderMapping[f] = log[i].parentId)

C7_ParentBeforeChild ==
    InFirstSync =>
        \A i \in Creates :
            NamesRemoteFolder(run.api, RemoteOf(i)) => ParentMadeFirst(i)

\* C7 as amended: the same, for the rebuild branch of firstSync (the one
\* taken when the local tree holds no bookmark).
C7_ParentBeforeChildInRebuild ==
    InRebuild =>
        \A i \in Creates :
            NamesRemoteFolder(run.api, RemoteOf(i)) => ParentMadeFirst(i)

\* A bookmark was created under a chain of two folders that did not exist
\* yet when its turn came, its parent being dated later than itself.
C7_Witness ==
    /\ InRebuild
    /\ \E i \in Creates \cap Accepted :
         /\ log[i].via = "item" /\ RemoteOf(i).type = "bookmark"
         /\ NamesRemoteFolder(run.api, RemoteOf(i))
         /\ DateKey(NodeMapGet(run.api, RemoteOf(i).parentId)) > DateKey(RemoteOf(i))
         /\ Cardinality({j \in Creates \cap Accepted :
                            j < i /\ log[j].via = "parent" /\ log[j].item = log[i].rid}) = 2

(***************************************************************************)
(* C8. Dependency ordering in fullSync: every create or move call names as *)
(* parent a fixed root or a folder that is in the local tree at the moment *)
(* of the call. (A rejected call leaves the tree as it was, so the last    *)
(* call of the log is judged against the tree it met.)                     *)
(***************************************************************************)
C8_ParentExistsAtCall ==
    (InFullSync /\ log # <<>> /\ log[Len(log)].op \in {"create", "move"})
    => IsFolderIn(tree, log[Len(log)].parentId)

(***************************************************************************)
(* C9. Merge branch of firstSync: with no failing create, the local URL    *)
(* set after the loop is L \cup R, and the run has created at most one     *)
(* bookmark per URL, also when R lists a URL in several remote nodes.      *)
(***************************************************************************)
C9_MergeDeduplicates ==
    (InMerge /\ LoopOver /\ ~run.failed)
    => /\ LocalUrls = existingUrls(run.existingBookmarks) \cup UrlKeys(run.api)
       /\ \A i, j \in Creates : log[i].url = log[j].url => i = j

(***************************************************************************)
(* C10. Chronological creation in the rebuild branch: the create calls     *)
(* follow ascending dateAdded (missing counted as 0); a call that precedes *)
(* one of smaller dateAdded is a folder that ensureParentExists created    *)
(* early for a descendant dated before it.                                 *)
(***************************************************************************)
C10_Chronological ==
    InRebuild =>
        \A i, j \in Creates :
            (i < j /\ DateKey(RemoteOf(i)) > DateKey(RemoteOf(j)))
            => /\ log[i].via = "parent"
               /\ DateKey(NodeMapGet(run.api, log[i].item)) < DateKey(RemoteOf(i))
\* The POSTs among the requests sent since the latest trigger.
Posts == {i \in 1..Len(net) : net[i].method = "POST"}
NonOk == {"status", "garbled"}

(***************************************************************************)
(* C11. Fail-fast on a failed fetch, in both modes: when the GET of the    *)
(* remote collection is answered with a non-2xx status, the run issues no  *)
(* local create, update, move or remove call and no POST.                  *)
(***************************************************************************)
C11_FetchFailureAborts ==
    run.fetched \in NonOk => (log = <<>> /\ Posts = {})

Reconciling(m) == m \in {"firstSync", "fullSync"}

(***************************************************************************)
(* C12. A reconciliation run started while the store holds no token ends   *)
(* at once: it sends no request, issues no chrome.bookmarks call, and      *)
(* leaves the local tree and the remote collection as they were.           *)
(***************************************************************************)
C12_NoTokenNoEffect ==
    [][(plan' # plan /\ Reconciling(run'.mode) /\ ~token)
        => /\ run'.pc = "end"
           /\ net' = <<>> /\ log' = <<>>
           /\ tree' = tree /\ remote' = remote]_vars

\* A run without token has ended although the remote set differs from the
\* local tree, which holds a user node.
C12_Witness ==
    /\ Reconciling(run.mode) /\ ~run.hadToken /\ ~token /\ run.pc = "end"
    /\ remote # <<>> /\ DOMAIN tree # SystemIds
    /\ net = <<>> /\ log = <<>>

(***************************************************************************)
(* C13. Every upload of the local snapshot requires a credential: no POST  *)
(* is sent, by the push-back of firstSync or by a change listener, while   *)
(* the store holds no token.                                               *)
(***************************************************************************)
C13_PostsCarryToken ==
    \A i \in Posts : net[i].auth

(***************************************************************************)
(* C14. When a fullSync run the alarm started fails as a whole (no token,  *)
(* or the fetch fails or is answered non-2xx), the failure notification is *)
(* shown and not the success notification.                                 *)
(***************************************************************************)
FailedAsWhole == ~run.hadToken \/ run.fetched \in (Responses \ {"ok"})

C14_FailureNotified ==
    (run.trigger = "alarm" /\ run.pc = "end" /\ FailedAsWhole)
    => shown = Notification(TRUE)

(***************************************************************************)
(* C16. A fullSync run leaves the remote collection alone: from its start  *)
(* on no POST is sent, the uploads of the change listeners that its own    *)
(* chrome.bookmarks calls set off included.                                *)
(***************************************************************************)
C16_FullSyncSendsNoPost ==
    InFullSync => Posts = {}

(***************************************************************************)
(* C18. No flattened list built from the local tree, the reconciler's or   *)
(* the one a change listener uploads, has an entry with id 0, 1 or 2.      *)
(***************************************************************************)
NoSystemEntry(list) == \A n \in Range(list) : n.id \notin SystemIds

C18_NoRootInFlattenedLists ==
    /\ NoSystemEntry(run.existingBookmarks)
    /\ \A i \in Posts : NoSystemEntry(net[i].body)

(***************************************************************************)
(* C15. A local mutation call that fails is caught at its item: the step   *)
(* leaves the tree, the Folder Mapping, the processed set and the item     *)
(* list as they were (nothing applied before is rolled back, nothing of    *)
(* the failing item stays behind), the loop goes on to the next item (the  *)
(* deletion pass to the next removal), and the run leaves its loop only    *)
(* when every item has had its turn.                                       *)
(***************************************************************************)
Rejected ==
    /\ Len(log') = Len(log) + 1
    /\ SubSeq(log', 1, Len(log)) = log
    /\ ~log'[Len(log')].ok

C15_FailureIsolated ==
    [][/\ Rejected =>
            /\ tree' = tree /\ nextId' = nextId
            /\ run'.folderMapping = run.folderMapping
            /\ run'.processedItems = run.processedItems
            /\ run'.items = run.items /\ run'.api = run.api
            /\ run'.existingBookmarks = run.existingBookmarks
            /\ IF run.pc = "delete"
               THEN /\ run'.removals = Tail(run.removals)
                    /\ run'.idx = run.idx
                    /\ run'.pc = IF run'.removals = <<>> THEN "sync" ELSE "delete"
               ELSE /\ run'.idx = run.idx + 1
                    /\ run'.pc = IF run'.idx > Len(run.items)
                                 THEN (IF InFirstSync THEN "push" ELSE "end")
                                 ELSE run.pc
       /\ run'.pc \in {"push", "end"} => run'.idx = Len(run'.items) + 1]_vars

\* A call was rejected between two accepted ones made for other items, and
\* what the first one created is still in the tree when the run is over.
C15_Witness ==
    /\ run.pc = "end" /\ Reconciling(run.mode)
    /\ \E h, i, j \in 1..Len(log) :
         /\ h < i /\ i < j
         /\ log[h].ok /\ log[h].op = "create" /\ log[h].target \in DOMAIN tree
         /\ ~log[i].ok /\ log[i].item # log[h].item
         /\ log[j].ok /\ log[j].item # log[i].item /\ log[j].via = "item"

(***************************************************************************)
(* C17. A firstSync run that had a token and a response it could read      *)
(* sends no POST of its own while its create loop lasts, in the rebuild    *)
(* and in the merge branch alike; once it is over it has sent exactly one, *)
(* after everything else on the wire, and its body is the flattened local  *)
(* tree of that moment: it holds every node the run created and every      *)
(* node that was there before.                                             *)
(***************************************************************************)
RunPosts == {i \in Posts : net[i].by = "run"}
Ids(list) == {n.id : n \in Range(list)}
Readable == {"ok", "status"}

UserIds == DOMAIN tree \ SystemIds
Below(id) == Subtree(tree, id) \ {id}

C19_PreOrderListing ==
    LET list == getExistingChromeBookmarks(tree)
        Pos(id) == CHOOSE i \in 1..Len(list) : list[i].id = id
    IN  /\ Len(list) = Cardinality(UserIds)
        /\ Ids(list) = UserIds
        /\ \A i \in 1..Len(list) :
             LET n == list[i]
             IN  /\ n = [id |-> n.id, parentId |-> tree[n.id].parentId,
                         title |-> tree[n.id].title, url |-> tree[n.id].url,
                         dateAdded |-> tree[n.id].dateAdded,
                         type |-> IF tree[n.id].url # "" THEN "bookmark" ELSE "folder"]
                 /\ n.type = "bookmark" => tree[n.id].children = <<>>
                 /\ n.type = "folder" =>
                        {list[j].id : j \in {k \in 1..Len(list) :
                                                k > i /\ k <= i + Cardinality(Below(n.id))}}
                            = Below(n.id)
        /\ \A p \in DOMAIN tree : \A i, j \in 1..Len(tree[p].children) :
             LET a == tree[p].children[i]
                 b == tree[p].children[j]
             IN  (i < j /\ p # 0) => Pos(a) < Pos(b)
        /\ \A a \in Below(1), b \in Below(2) : Pos(a) < Pos(b)
        /\ (Reconciling(run.mode) /\ log = <<>>) => run.existingBookmarks = list

\* A run has just read a tree in which a folder with a child has a younger
\* sibling.
C19_Witness ==
    /\ Reconciling(run.mode) /\ log = <<>> /\ run.pc \notin {"idle", "end"}
    /\ \E f \in UserIds, g \in UserIds :
         /\ tree[f].children # <<>>
         /\ tree[g].parentId = tree[f].parentId
         /\ g > f
    /\ Len(run.existingBookmarks) >= 3

(***************************************************************************)
(* C20. No call of a run (create, update, move, remove, removeTree) has    *)
(* node 0, 1 or 2 as its target, also when the remote set has entries with *)
(* those ids; the three nodes stay in the tree under their titles; and the *)
(* Folder Mapping keeps 1 -> 1 and 2 -> 2 from the start of a run to its   *)
(* end.                                                                    *)
(***************************************************************************)
C20_RootsUntouched ==
    /\ \A i \in 1..Len(log) : log[i].target \notin SystemIds
    /\ \A k \in SystemIds :
         /\ k \in DOMAIN tree
         /\ tree[k].title = EmptyTree[k].title
         /\ tree[k].parentId = EmptyTree[k].parentId
    /\ \A k \in {1, 2} : k \in DOMAIN run.folderMapping /\ run.folderMapping[k] = k
    /\ \A i \in 1..Len(done) :
         \A j \in 1..Len(done[i].calls) : done[i].calls[j].target \notin SystemIds

\* A run over a remote set that lists the fixed roots has ended after calls
\* that were accepted.
C20_Witness ==
    /\ Reconciling(run.mode) /\ run.pc = "end" /\ run.fetched = "ok"
    /\ \E n \in Range(remote) : n.id \in SystemIds
    /\ Len(run.api) < Len(remote)
    /\ Accepted # {}
    /\ DOMAIN run.folderMapping # {1, 2}

(***************************************************************************)
(* C21. verifyCode stores the token and starts firstSync exactly when the  *)
(* verification reports success with a token; the run it started begins    *)
(* after the token was stored and finds it. A verification that failed     *)
(* stores nothing and starts no run.                                       *)
(***************************************************************************)
Verifying == plan # <<>> /\ Head(plan) = "login" /\ plan' # plan
StartsByLogin == plan # <<>> /\ Head(plan) = "verified" /\ plan' # plan

ModeBEvents == {"alarm", "startup", "installed", "fullSync"}

C22_EventsStartFullSync ==
    [][(plan # <<>> /\ Head(plan) \in ModeBEvents /\ plan' # plan)
          => run'.mode = "fullSync"]_vars

(***************************************************************************)
(* C23. When the parentId references of the remote folders run in a        *)
(* circle (a folder that is its own parent included), the run still gets   *)
(* past its loop, and every folder or bookmark on or below the circle has  *)
(* then been created under a fixed root (or, in fullSync, is found there). *)
(***************************************************************************)
OnOrBelowCycle(api, n) == ensureParentExists(api, RootMapping, {}, n, {}).throws

UnderFixedRoot(n) ==
    \/ \E i \in Creates \cap Accepted : log[i].rid = n.id /\ log[i].parentId \in {1, 2}
    \/ \E id \in UserIds :
         /\ tree[id].parentId \in {1, 2}
         /\ IF IsBookmark(n) THEN tree[id].url = n.url
            ELSE tree[id].url = "" /\ tree[id].title = FolderTitle(n)

C23_CyclesTolerated ==
    (Reconciling(run.mode) /\ LoopOver /\ ~run.failed) =>
        \A n \in Range(run.items) :
            (OnOrBelowCycle(run.api, n) /\ (n.type = "folder" \/ IsBookmark(n)))
                => UnderFixedRoot(n)

(***************************************************************************)
(* C24. A remote folder or bookmark whose parentId is absent, names no     *)
(* node of the remote set (the stripped id 0 included) or names a remote   *)
(* node that is not a folder is not skipped and raises no error: when its  *)
(* turn is over it has been created, or in fullSync moved, under fixed     *)
(* root 1, as long as chrome rejects no call that it could have accepted.  *)
(***************************************************************************)
Unresolvable(api, n) ==
    \/ n.parentId = Absent
    \/ n.parentId \notin (NodeMapIds(api) \cup {1, 2})
    \/ n.parentId \in NodeMapIds(api) /\ NodeMapGet(api, n.parentId).type # "folder"

InLoop == run.pc \in {"rebuild", "merge", "sync"}
TurnOver == InLoop /\ run'.idx = run.idx + 1 /\ run'.items = run.items

UnderRootOne(t, n) ==
    \E id \in DOMAIN t \ SystemIds :
        /\ t[id].parentId = 1
        /\ IF IsBookmark(n) THEN t[id].url = n.url
           ELSE t[id].url = "" /\ t[id].title = FolderTitle(n)

C24_DefaultsToRootOne ==
    [][(TurnOver /\ Unresolvable(run.api, Item)
          /\ (Item.type = "folder" \/ IsBookmark(Item))
          /\ run'.fails = 0)
        => /\ \A i \in 1..Len(log') : log'[i].item = Item.id => log'[i].ok
           /\ UnderRootOne(tree', Item)]_vars

(***************************************************************************)
(* C25. Whatever calls fail, a run that has entered its item loop over a   *)
(* remote set without a circle of parent references comes to its end, and  *)
(* by then the loop has been at every item of the sorted list once: the    *)
(* position moves one item at a time and ends behind the last one. Every   *)
(* call the run awaits is taken to resolve or reject, which is the         *)
(* fairness of LiveSpec.                                                   *)
(***************************************************************************)
LiveNext ==
    \/ FirstSync
    \/ RebuildSkip
    \/ RebuildParent
    \/ RebuildItem
    \/ MergeItem
    \/ syncBookmarksToApi
    \/ FullSync
    \/ Remove
    \/ SyncSkip
    \/ SyncParent
    \/ SyncFolder
    \/ SyncBookmark
    \/ SyncMove

\* One run of either mode over at most one local user node and one or two
\* remote nodes with every parent reference.
LiveShapes == [parentId : {Absent, 1, 11, 12}, title : {"W"}, url : Kinds,
               dateAdded : {Absent, 1}]

LiveInit ==
    \E m \in 0..1, n \in 1..2 :
      \E ls \in [1..m -> LocalShapes], rs \in [1..n -> LiveShapes],
         p \in {<<"firstSync">>, <<"fullSync">>} :
        /\ LocalShapeOk(ls, m)
        /\ Start(LocalTree(ls, m), 3 + m, [i \in 1..n |-> RemoteNode(i, rs[i])], p)

LiveSpec == LiveInit /\ [][LiveNext]_vars /\ WF_vars(LiveNext)

C25_RunCompletes ==
    /\ (InLoop /\ Acyclic(run.api)) ~> (run.pc = "end" /\ run.idx = Len(run.items) + 1)
    /\ [][InLoop => \/ run'.items = run.items /\ run'.idx \in {run.idx, run.idx + 1}
                    \/ run.idx = Len(run.items) + 1]_vars

\* A run over two or more items has ended although a call was rejected on the way.
C25_Witness ==
    /\ Reconciling(run.mode) /\ run.pc = "end"
    /\ Acyclic(run.api)
    /\ Len(run.items) >= 2 /\ run.idx = Len(run.items) + 1
    /\ run.failed

(***************************************************************************)
(* C26. Once a call made for a remote item was rejected, the run issues    *)
(* no further call for that remote item: a folder whose creation failed    *)
(* is not attempted again, neither for one of its children nor at its own  *)
(* turn.                                                                   *)
(***************************************************************************)
C26_NoRetryInsideRun ==
    \A i, j \in 1..Len(log) :
        (i < j /\ ~log[i].ok /\ log[i].rid # Absent) => log[j].rid # log[i].rid

(***************************************************************************)
(* C27. What a fullSync run does to the local tree does not depend on the  *)
(* values of the remote ids: against a remote set whose non-root ids are   *)
(* renamed one-to-one (id and parentId alike), a run from the same local   *)
(* tree issues the same calls. Its first calls are the removals, which are *)
(* a function of the snapshot and the remote set.                          *)
(***************************************************************************)
\* Renamings of the remote ids: each id moved by the same distance.
Renamings == {20, -8}

RenameId(id, k) == IF id \in SystemIds \cup {Absent} THEN id ELSE id + k

Rename(api, k) ==
    [i \in 1..Len(api) |->
        [api[i] EXCEPT !.id = RenameId(@, k), !.parentId = RenameId(@, k)]]

\* The renaming keeps the renamed ids apart from the roots.
Renamable(api, k) ==
    \A n \in Range(api) :
        /\ n.id \notin SystemIds => n.id + k > 2
        /\ n.parentId \notin SystemIds \cup {Absent} => n.parentId + k > 2

C27_RemoteIdsIrrelevant ==
    (InFullSync /\ run.hadToken /\ run.fetched = "ok") =>
        \A k \in Renamings :
            Renamable(run.api, k) =>
                Removals(run.existingBookmarks, Rename(run.api, k))
                    = Removals(run.existingBookmarks, run.api)

(***************************************************************************)
(* C28. In the merge branch (the local tree held a bookmark when the run   *)
(* started) firstSync only appends: every call is the create of a remote   *)
(* bookmark whose URL was not among the local URLs read at the start,      *)
(* under fixed root 1, in ascending dateAdded order (a missing date counts *)
(* as 0); no folder is created and no node that was there is updated,      *)
(* moved or removed.                                                       *)
(***************************************************************************)
C28_MergeAppendOnly ==
    InMerge =>
        /\ \A i \in 1..Len(log) :
             /\ log[i].op = "create" /\ log[i].via = "item"
             /\ log[i].parentId = 1
             /\ log[i].url # ""
             /\ log[i].url \notin existingUrls(run.existingBookmarks)
             /\ \E n \in Range(run.api) :
                  /\ n.id = log[i].rid /\ IsBookmark(n)
                  /\ n.url = log[i].url /\ n.title = log[i].title
        /\ \A i, j \in 1..Len(log) :
             i < j => DateKey(RemoteOf(i)) <= DateKey(RemoteOf(j))
        /\ \A n \in Range(run.existingBookmarks) :
             n.id \in DOMAIN tree /\ LocalNode(tree, n.id, n.type) = n
        /\ \A id \in UserIds :
             tree[id].url = "" => id \in Ids(run.existingBookmarks)

\* A merge run has created two remote bookmarks, the one listed second
\* first because it is the older one.
C28_Witness ==
    /\ InMerge /\ run.pc = "end"
    /\ Len(log) = 2 /\ log[1].ok /\ log[2].ok
    /\ Len(run.api) = 2
    /\ log[1].rid = run.api[2].id /\ log[2].rid = run.api[1].id
    /\ log[1].rid # log[2].rid

(***************************************************************************)
(* C29. Nothing keeps a trigger from starting a run while another run is   *)
(* suspended at an await: whenever a run waits and a trigger of a run is   *)
(* due, that run can start. Two runs that overlap in this way over one     *)
(* unchanged remote set can each create a local bookmark for the same      *)
(* remote bookmark, which leaves two local bookmarks with its URL.         *)
(***************************************************************************)
RunTriggers == {"fullSync", "alarm", "firstSync", "verified"}

C29_OverlapUnguarded ==
    (Suspended(other.run) /\ ~Suspended(run) /\ plan # <<>> /\ Head(plan) \in RunTriggers)
        => ENABLED (FullSync \/ FirstSync)

\* Both runs have ended, each with an accepted create for the same remote
\* bookmark, over a remote set that lists its URL once and did not change.
C29_Witness ==
    /\ run.pc = "end" /\ other.run.pc = "end"
    /\ Reconciling(run.mode) /\ Reconciling(other.run.mode)
    /\ run.api = remote /\ other.run.api = remote /\ DistinctUrls(remote)
    /\ \E i \in 1..Len(log), j \in 1..Len(other.log) :
         /\ log[i].ok /\ other.log[j].ok
         /\ log[i].op = "create" /\ other.log[j].op = "create"
         /\ log[i].rid = other.log[j].rid
         /\ log[i].url # "" /\ log[i].url = other.log[j].url
         /\ log[i].target # other.log[j].target
         /\ {log[i].target, other.log[j].target} \subseteq LocalBookmarkIds
         /\ tree[log[i].target].url = tree[other.log[j].target].url

(***************************************************************************)
(* C30. A run has at most one request outstanding: between two awaits it   *)
(* issues at most one fetch, POST or chrome.bookmarks call, and that call   *)
(* has resolved or rejected before the step that issues the next one. A    *)
(* step of the model is what a run executes between two awaits; the        *)
(* uploads of the change listeners are not requests of the run.            *)
(***************************************************************************)
ByRun(requests) == Len(SelectSeq(requests, LAMBDA q : q.by = "run"))

\* The requests and calls the run issued in the step.
Issued ==
    IF plan' # plan
    THEN ByRun(net') + Len(log')
    ELSE (ByRun(net') - ByRun(net)) + (Len(log') - Len(log))

C30_OneCallAtATime ==
    [][/\ Issued <= 1
       /\ (plan' = plan /\ Len(log') > Len(log)) =>
            /\ SubSeq(log', 1, Len(log)) = log
            /\ log'[Len(log')].ok \in BOOLEAN
            /\ (log'[Len(log')].ok /\ log'[Len(log')].op = "create")
                   => log'[Len(log')].target \in DOMAIN tree']_vars

\* A firstSync run has ended after a fetch, three calls of which one was
\* rejected, and its POST.
C30_Witness ==
    /\ InFirstSync /\ run.pc = "end"
    /\ Len(log) >= 3
    /\ \E i \in 1..Len(log) : ~log[i].ok
    /\ RunPosts # {}
    /\ ByRun(net) = 2

(***************************************************************************)
(* Runs whose reads of the local tree may fail.                            *)
(***************************************************************************)
\* One run of either mode over at most one local user node and one or two
\* remote nodes, with getTree reporting an error or not.
ReaderInit ==
    \E m \in 0..1, n \in 1..2, err \in BOOLEAN :
      \E ls \in [1..m -> LocalShapes], rs \in [1..n -> LiveShapes],
         p \in {<<"firstSync">>, <<"fullSync">>} :
        /\ LocalShapeOk(ls, m)
        /\ StartWith(LocalTree(ls, m), 3 + m, [i \in 1..n |-> RemoteNode(i, rs[i])],
                     p, TRUE, [Quiet EXCEPT !.lastError = err])

ReaderSpec == ReaderInit /\ [][LiveNext]_vars

(***************************************************************************)
(* C31. When chrome.bookmarks.getTree reports an error, the run goes on    *)
(* with the empty sequence as its local snapshot: what it holds is what a  *)
(* local tree without user nodes reads as, so firstSync takes the rebuild  *)
(* branch over every remote item, fullSync plans no removal, and neither   *)
(* ends before its loop because of the failed read.                        *)
(***************************************************************************)
C31_ReaderFailsClosed ==
    (Reconciling(run.mode) /\ lastError) =>
        /\ run.existingBookmarks = <<>>
        /\ run.existingBookmarks = traverse(EmptyTree, <<0>>)
        /\ run.removals = <<>>
        /\ \A i \in 1..Len(log) : log[i].op \notin {"remove", "removeTree"}
        /\ (run.fetched = "ok" /\ run.api # <<>>) =>
               /\ run.items = SortByDate(run.api)
               /\ run.pc = "end" => run.idx = Len(run.items) + 1

\* The read failed over a tree that holds a bookmark, and the firstSync run
\* rebuilt the remote bookmark with the same URL next to it.
C31_Witness ==
    /\ InFirstSync /\ lastError /\ run.pc = "end"
    /\ run.existingBookmarks = <<>>
    /\ \E a \in LocalBookmarkIds, b \in LocalBookmarkIds :
         a # b /\ tree[a].url = tree[b].url

(***************************************************************************)
(* C36. A fullSync run that meets an empty remote collection, or one whose *)
(* entries all carry the ids 0, 1, 2, ends with its first step: it issues  *)
(* no chrome.bookmarks call and the local tree stays as it was.            *)
(***************************************************************************)
SystemOnly(collection) ==
    \A i \in 1..Len(collection) : collection[i].id \in SystemIds

C36_EmptyRemoteGuard ==
    [][(FullSync /\ SystemOnly(remote)) =>
           /\ run'.pc = "end"
           /\ log' = <<>>
           /\ tree' = tree /\ nextId' = nextId]_vars

\* A fullSync run fetched a collection of system entries only, over a local
\* tree holding user nodes, and ended without a call.
C36_Witness ==
    /\ InFullSync /\ run.pc = "end" /\ run.hadToken /\ run.fetched = "ok"
    /\ remote # <<>> /\ SystemOnly(remote)
    /\ run.existingBookmarks # <<>>
    /\ log = <<>>
    /\ DOMAIN tree # SystemIds

(***************************************************************************)
(* C32. In the call log of one fullSync run every remove and removeTree    *)
(* call stands before the first create, update or move call, every remove  *)
(* stands before the first removeTree, and the creation/update pass        *)
(* decides against the snapshot read at the start of the run: a bookmark   *)
(* is created only for a URL the snapshot does not hold, update and move   *)
(* address the bookmark the snapshot holds under the item's URL, and the   *)
(* snapshot does not change while the run goes on.                         *)
(***************************************************************************)
Removing == {"remove", "removeTree"}

C32_PassOrdering ==
    /\ [](InFullSync =>
            /\ \A j \in 1..Len(log) : \A i \in 1..(j - 1) :
                 /\ log[j].op \in Removing => log[i].op \in Removing
                 /\ log[j].op = "remove" => log[i].op = "remove"
            /\ \A i \in 1..Len(log) :
                 /\ (log[i].op = "create" /\ log[i].url # "") =>
                        log[i].url \notin UrlKeys(run.existingBookmarks)
                 /\ log[i].op \in {"update", "move"} =>
                        /\ RemoteOf(i).url \in UrlKeys(run.existingBookmarks)
                        /\ log[i].target
                             = ByUrlGet(run.existingBookmarks, RemoteOf(i).url).id)
    /\ [][(InFullSync /\ Suspended(run) /\ run'.pc # "idle" /\ log' # <<>>) =>
              run'.existingBookmarks = run.existingBookmarks]_vars

\* A bookmark and then a folder were removed, and the second pass then issued
\* a call while the snapshot still held a node the deletion pass had taken
\* from the tree.
C32_Witness ==
    /\ InFullSync
    /\ \E i \in 1..Len(log), j \in 1..Len(log), k \in 1..Len(log) :
         /\ i < j /\ j < k
         /\ log[i].op = "remove" /\ log[i].ok
         /\ log[j].op = "removeTree" /\ log[j].ok
         /\ log[k].op \in {"create", "update", "move"}
    /\ \E n \in Range(run.existingBookmarks) : n.id \notin DOMAIN tree

logout ==
    /\ run.pc \in {"idle", "end"}
    /\ plan # <<>> /\ Head(plan) = "logout"
    /\ plan' = Tail(plan)
    /\ \E removed \in BOOLEAN :
         /\ token' = (token /\ ~removed)
         /\ run' = [Handled("logout") EXCEPT !.failed = ~removed]
    /\ log' = <<>>
    /\ net' = <<>>
    /\ shown' = ""
    /\ UNCHANGED <<tree, nextId, remote, done, server, other, uploads>>

\* AuthService.logout(), as handleLogout of the layout's menu and of the
\* profile page call it: chrome.storage.local.remove(["authToken", "user",
\* "isAuthenticated"]). The key getAuthToken reads, verificationCode, is not
\* among them.
AuthServiceLogout ==
    /\ run.pc \in {"idle", "end"}
    /\ plan # <<>> /\ Head(plan) = "handleLogout"
    /\ plan' = Tail(plan)
    /\ token' = token
    /\ run' = Handled("handleLogout")
    /\ log' = <<>>
    /\ net' = <<>>
    /\ shown' = ""
    /\ UNCHANGED <<tree, nextId, remote, done, server, other, uploads>>

\* A session: logged in, one of the two logouts, then a trigger of a run or a
\* new login, over at most one local bookmark and one or two remote ones.
SessionPlans == {<<"logout", "fullSync">>, <<"handleLogout", "fullSync">>,
                 <<"handleLogout", "alarm">>, <<"logout", "login">>,
                 <<"handleLogout", "firstSync">>, <<"logout", "alarm">>}

SessionInit ==
    \E m \in 0..1, n \in 1..2 :
      \E ls \in [1..m -> [title : {"W"}, url : Urls, inside : {FALSE}]],
         rs \in [1..n -> OverlapShapes], p \in SessionPlans, verdict \in Verdicts :
        StartWith(LocalTree(ls, m), 3 + m, [i \in 1..n |-> RemoteNode(i, rs[i])], p,
                  TRUE, [Quiet EXCEPT !.verify = verdict])

SessionNext ==
    \/ logout
    \/ AuthServiceLogout
    \/ verifyCode
    \/ FirstSync
    \/ RebuildItem
    \/ MergeItem
    \/ syncBookmarksToApi
    \/ FullSync
    \/ Remove
    \/ SyncBookmark
    \/ SyncMove

SessionSpec == SessionInit /\ [][SessionNext]_vars

(***************************************************************************)
(* C33. Once a logout operation has completed (its removal from the store  *)
(* not rejected) the store holds no token for getAuthToken, and the run    *)
(* triggered next ends with its first step: no request is sent and the     *)
(* local tree is left as it was.                                           *)
(***************************************************************************)
LoggedOut == run.mode \in {"logout", "handleLogout"} /\ run.pc = "end" /\ ~run.failed

C33_LogoutRemovesCredential ==
    /\ [](LoggedOut => ~getAuthToken)
    /\ [][(LoggedOut /\ (FullSync \/ FirstSync)) =>
              /\ run'.pc = "end"
              /\ net' = <<>>
              /\ tree' = tree]_vars

(***************************************************************************)
(* fullSync over a remote collection this device has just uploaded.        *)
(***************************************************************************)
\* Up to three local user nodes, and as remote collection the upload of that
\* very tree: by syncBookmarksToApi, or by a change listener (fixed roots
\* included).
SyncedInit ==
    \E m \in 0..3 :
      \E ls \in [1..m -> LocalShapes], p \in {<<"fullSync">>, <<"alarm">>} :
        /\ LocalShapeOk(ls, m)
        /\ \E r \in {traverse(LocalTree(ls, m), <<0>>), getAllBookmarks(LocalTree(ls, m))} :
             Start(LocalTree(ls, m), 3 + m, r, p)

\* The steps such a run can come to: nothing is planned for removal, and in
\* the order of dateAdded every folder stands before what it holds.
SyncedNext ==
    \/ FullSync
    \/ SyncFolder
    \/ SyncBookmark
    \/ SyncMove

SyncedSpec == SyncedInit /\ [][SyncedNext]_vars

\* The two lists hold the same nodes: same ids, parentIds, titles and urls.
Identity(n) == [id |-> n.id, parentId |-> n.parentId, title |-> n.title, url |-> n.url]
InSync(existing, api) ==
    {Identity(n) : n \in Range(existing)} = {Identity(n) : n \in Range(api)}

(***************************************************************************)
(* C35. A fullSync run that starts with the local flattened tree and the   *)
(* remote node set equal node for node issues no chrome.bookmarks call,    *)
(* also when sibling folders share a title or bookmarks share a URL.       *)
(***************************************************************************)
C35_NoOpWhenInSync ==
    (InFullSync /\ run.fetched = "ok" /\ InSync(run.existingBookmarks, run.api))
        => log = <<>>

(***************************************************************************)
(* The change listeners on their own: the user edits the tree, each edit   *)
(* raises one event, and every event's upload goes its own way.            *)
(***************************************************************************)
\* A listener was called: sendBookmarksToApi has asked for the tree.
Raise == uploads' = Append(uploads, [stage |-> "raised", body |-> <<>>])

Edit(event) ==
    /\ plan # <<>> /\ Head(plan) = event
    /\ plan' = Tail(plan)
    /\ Raise
    /\ UNCHANGED <<remote, run, log, done, token, server, net, shown, other>>

\* chrome.bookmarks.onCreated: the user adds a bookmark to the bookmarks bar.
onCreated ==
    /\ Edit("created")
    /\ \E url \in Urls : tree' = ChromeCreate(tree, nextId, 1, "W", url)
    /\ nextId' = nextId + 1

\* chrome.bookmarks.onRemoved: the user deletes a node (a folder with all it holds).
onRemoved ==
    /\ Edit("removed")
    /\ \E id \in DOMAIN tree \ SystemIds : tree' = ChromeRemove(tree, id)
    /\ UNCHANGED nextId

\* chrome.bookmarks.onChanged: the user renames a node.
onChanged ==
    /\ Edit("changed")
    /\ \E id \in DOMAIN tree \ SystemIds, title \in Titles :
         /\ title # tree[id].title
         /\ tree' = ChromeUpdate(tree, id, title)
    /\ UNCHANGED nextId

\* chrome.bookmarks.onMoved: the user moves a node to another folder.
onMoved ==
    /\ Edit("moved")
    /\ \E id \in DOMAIN tree \ SystemIds, parentId \in DOMAIN tree \ {0} :
         /\ CanMove(tree, id, parentId)
         /\ parentId # tree[id].parentId
         /\ tree' = ChromeMove(tree, id, parentId)
    /\ UNCHANGED nextId

\* fetch(API_URL, {method: "POST", ...}) is called and the function waits.
Send(i, body) ==
    /\ uploads' = [uploads EXCEPT ![i] = [stage |-> "sent", body |-> body]]
    /\ remote' = remote

\* sendBookmarksToApi, from the getTree callback on: the tree as it is now is
\* flattened and handed to sendInitialBookmarksToApi, which sends it; on
\* lastError nothing is sent. The callbacks come in the order of the events.
sendBookmarksToApi ==
    /\ \E i \in 1..Len(uploads) :
         /\ uploads[i].stage = "raised"
         /\ \A j \in 1..(i - 1) : uploads[j].stage # "raised"
         /\ IF lastError
            THEN /\ uploads' = [uploads EXCEPT ![i].stage = "done"]
                 /\ UNCHANGED <<remote, net>>
            ELSE /\ Send(i, getAllBookmarks(tree))
                 /\ net' = Append(net, Request("POST", "event", getAllBookmarks(tree)))
    /\ UNCHANGED <<tree, nextId, run, log, done, plan, token, server, shown, other>>

\* sendInitialBookmarksToApi, from the response on: the server has taken the
\* POST, and replaced the collection when it accepts uploads and a token came
\* along. Requests under way reach the server in any order.
sendInitialBookmarksToApi ==
    /\ \E i \in 1..Len(uploads) :
         /\ uploads[i].stage = "sent"
         /\ uploads' = [uploads EXCEPT ![i].stage = "done"]
         /\ remote' = IF server.accepts /\ token THEN uploads[i].body ELSE remote
    /\ UNCHANGED <<tree, nextId, run, log, done, plan, token, server, net, shown, other>>

\* One or two edits of a tree with at most one user node, the remote
\* collection being the upload of that tree; the server takes every upload.
UploadPlans ==
    LET Events == {"created", "removed", "changed", "moved"}
    IN  {<<e>> : e \in Events} \cup {<<e, f>> : e \in Events, f \in Events}

UploadInit ==
    \E m \in 0..1 :
      \E ls \in [1..m -> LocalShapes], p \in UploadPlans :
        /\ LocalShapeOk(ls, m)
        /\ StartWith(LocalTree(ls, m), 3 + m, getAllBookmarks(LocalTree(ls, m)), p,
                     TRUE, [Quiet EXCEPT !.accepts = TRUE])

UploadNext ==
    \/ onCreated
    \/ onRemoved
    \/ onChanged
    \/ onMoved
    \/ sendBookmarksToApi
    \/ sendInitialBookmarksToApi

UploadSpec == UploadInit /\ [][UploadNext]_vars

(***************************************************************************)
(* C34. Once every upload the change listeners started has completed, the  *)
(* remote collection is the flattening of the local tree as it is then,    *)
(* whatever the order in which the reads and the POSTs took place.         *)
(***************************************************************************)
Settled == uploads # <<>> /\ \A i \in 1..Len(uploads) : uploads[i].stage = "done"

C34_UploadsConverge ==
    Settled => remote = getAllBookmarks(tree)
====
